---- MODULE Spec2Model ----
(***************************************************************************)
(* ssb-bfe: the BFE codec of src/index.js (encode / decode and the         *)
(* module-level tag buffers), with its callers as the environment.         *)
(*                                                                         *)
(* JS values are records of one shape (see Mk).  A string is the sequence  *)
(* of its UTF-16 code units, a Buffer the sequence of its bytes; a Buffer  *)
(* that IS the module-level NIL_TF object (not a copy of it) carries       *)
(* a = "NIL_TF" and reads its bytes from the variable NIL_TF.  A thrown    *)
(* Error is a record of kind "error" holding the message.                  *)
(***************************************************************************)
EXTENDS Integers, Sequences, FiniteSets, TLC

VARIABLES
  TYPES,   \* the decorated registry (index.js:12), fixed after load
  NIL_TF,  \* bytes of the module-level NIL_TF Buffer (index.js:19)
  op,      \* the call a caller has just made: "encode", "decode"; "init" for none
  arg,     \* the argument of the last call
  ret,     \* what the last call returned (or the Error it threw)
  src      \* when arg is the result of an earlier encode: that call's argument

vars == <<TYPES, NIL_TF, op, arg, ret, src>>

(***************************************************************************)
(* Bounds of the model.                                                    *)
(***************************************************************************)
MaxLen == 2      \* longest array the callers pass
MaxBufLen == 4   \* longest Buffer drawn from ByteVals

(***************************************************************************)
(* JS values.                                                              *)
(***************************************************************************)
Mk(kind) == [k |-> kind, n |-> 0, s |-> <<>>, ks |-> <<>>, vs |-> <<>>, a |-> "", msg |-> ""]

None == Mk("none")
Absent == Mk("undefined")
Null == Mk("null")
Integer(i) == [Mk("int") EXCEPT !.n = i]
\* a number that is not an integer: n halves, n odd (3 is 1.5)
Float(halves) == [Mk("float") EXCEPT !.n = halves]
Bool(b) == [Mk("boolean") EXCEPT !.n = IF b THEN 1 ELSE 0]
Str(units) == [Mk("string") EXCEPT !.s = units]
Buf(bytes) == [Mk("buffer") EXCEPT !.s = bytes]
Arr(items) == [Mk("array") EXCEPT !.vs = items]
Obj(keys, values) == [Mk("object") EXCEPT !.ks = keys, !.vs = values]
Throw(message) == [Mk("error") EXCEPT !.msg = message]
ThrowWith(message, units) == [Mk("error") EXCEPT !.msg = message, !.s = units]

IsError(v) == v.k = "error"

\* the text `'...' + input` appends: of a string the string itself; of the
\* other kinds that reach a throw (a number, a boolean, undefined) the number
\* that tells them apart here
TextOf(input) == IF input.k = "string" THEN input.s ELSE <<input.n>>

\* the bytes a Buffer holds now
BufBytes(v) == IF v.a = "NIL_TF" THEN NIL_TF ELSE v.s

Min(a, b) == IF a < b THEN a ELSE b
Max(a, b) == IF a > b THEN a ELSE b
First(S) == CHOOSE i \in S : \A j \in S : i <= j

\* String.prototype.slice / Buffer.prototype.slice: 0-based, end exclusive,
\* negative indexes count from the end, both clamped.
JsSlice(q, start, end) ==
  LET len == Len(q)
      from == IF start < 0 THEN Max(len + start, 0) ELSE Min(start, len)
      to == IF end < 0 THEN Max(len + end, 0) ELSE Min(end, len)
  IN IF from >= to THEN <<>> ELSE SubSeq(q, from + 1, to)

JsSliceFrom(q, start) == JsSlice(q, start, Len(q))

IsPrefix(p, q) == Len(p) <= Len(q) /\ SubSeq(q, 1, Len(p)) = p
IsSuffix(p, q) == Len(p) <= Len(q) /\ SubSeq(q, Len(q) - Len(p) + 1, Len(q)) = p

(***************************************************************************)
(* Buffer.from(string, 'base64'): characters outside the alphabet are      *)
(* skipped, decoding stops at the first '=', '-' and '_' stand for '+' and *)
(* '/', and the sextets read so far give floor(6n/8) bytes.                *)
(***************************************************************************)
Sextet(u) ==
  IF u >= 65 /\ u <= 90 THEN u - 65
  ELSE IF u >= 97 /\ u <= 122 THEN u - 71
  ELSE IF u >= 48 /\ u <= 57 THEN u + 4
  ELSE IF u = 43 \/ u = 45 THEN 62
  ELSE IF u = 47 \/ u = 95 THEN 63
  ELSE 64

RECURSIVE Sextets(_)
Sextets(units) ==
  IF units = <<>> \/ Head(units) = 61 THEN <<>>
  ELSE IF Sextet(Head(units)) = 64 THEN Sextets(Tail(units))
  ELSE <<Sextet(Head(units))>> \o Sextets(Tail(units))

RECURSIVE SextetsToBytes(_)
SextetsToBytes(q) ==
  IF Len(q) < 2 THEN <<>>
  ELSE LET b1 == (q[1] * 4) + (q[2] \div 16) IN
    IF Len(q) = 2 THEN <<b1>>
    ELSE LET b2 == ((q[2] % 16) * 16) + (q[3] \div 4) IN
      IF Len(q) = 3 THEN <<b1, b2>>
      ELSE <<b1, b2, ((q[3] % 4) * 64) + q[4]>> \o SextetsToBytes(SubSeq(q, 5, Len(q)))

Base64ToBytes(units) == SextetsToBytes(Sextets(units))

(***************************************************************************)
(* buffer.toString('base64'): the standard alphabet, padded with '='.      *)
(***************************************************************************)
B64Char(x) ==
  IF x < 26 THEN x + 65
  ELSE IF x < 52 THEN x + 71
  ELSE IF x < 62 THEN x - 4
  ELSE IF x = 62 THEN 43
  ELSE 47

RECURSIVE BytesToBase64(_)
BytesToBase64(b) ==
  IF b = <<>> THEN <<>>
  ELSE IF Len(b) = 1 THEN
    <<B64Char(b[1] \div 4), B64Char((b[1] % 4) * 16), 61, 61>>
  ELSE IF Len(b) = 2 THEN
    <<B64Char(b[1] \div 4), B64Char(((b[1] % 4) * 16) + (b[2] \div 16)),
      B64Char((b[2] % 16) * 4), 61>>
  ELSE
    <<B64Char(b[1] \div 4), B64Char(((b[1] % 4) * 16) + (b[2] \div 16)),
      B64Char(((b[2] % 16) * 4) + (b[3] \div 64)), B64Char(b[3] % 64)>>
    \o BytesToBase64(SubSeq(b, 4, Len(b)))

(***************************************************************************)
(* Buffer.from(string, 'utf8'): an unpaired surrogate becomes U+FFFD.      *)
(***************************************************************************)
IsHigh(u) == u >= 55296 /\ u <= 56319
IsLow(u) == u >= 56320 /\ u <= 57343

RECURSIVE Utf8Bytes(_)
Utf8Bytes(units) ==
  IF units = <<>> THEN <<>>
  ELSE LET u == Head(units) IN
    IF u < 128 THEN <<u>> \o Utf8Bytes(Tail(units))
    ELSE IF u < 2048 THEN <<192 + (u \div 64), 128 + (u % 64)>> \o Utf8Bytes(Tail(units))
    ELSE IF IsHigh(u) /\ Len(units) >= 2 /\ IsLow(units[2]) THEN
      LET cp == 65536 + ((u - 55296) * 1024) + (units[2] - 56320) IN
      <<240 + (cp \div 262144), 128 + ((cp \div 4096) % 64),
        128 + ((cp \div 64) % 64), 128 + (cp % 64)>>
      \o Utf8Bytes(SubSeq(units, 3, Len(units)))
    ELSE IF IsHigh(u) \/ IsLow(u) THEN <<239, 191, 189>> \o Utf8Bytes(Tail(units))
    ELSE <<224 + (u \div 4096), 128 + ((u \div 64) % 64), 128 + (u % 64)>>
         \o Utf8Bytes(Tail(units))

(***************************************************************************)
(* buffer.toString('utf8'): each ill-formed maximal subpart becomes U+FFFD.*)
(***************************************************************************)
IsCont(b, i) == i <= Len(b) /\ b[i] >= 128 /\ b[i] <= 191

\* the second byte a lead byte admits
SecondOk(b) ==
  /\ Len(b) >= 2
  /\ b[2] >= (IF b[1] = 224 THEN 160 ELSE IF b[1] = 240 THEN 144 ELSE 128)
  /\ b[2] <= (IF b[1] = 237 THEN 159 ELSE IF b[1] = 244 THEN 143 ELSE 191)

RECURSIVE Utf8Text(_)
Utf8Text(b) ==
  IF b = <<>> THEN <<>>
  ELSE LET rest(n) == Utf8Text(SubSeq(b, n + 1, Len(b))) IN
    IF b[1] < 128 THEN <<b[1]>> \o rest(1)
    ELSE IF b[1] >= 194 /\ b[1] <= 223 THEN
      IF IsCont(b, 2) THEN <<((b[1] - 192) * 64) + (b[2] - 128)>> \o rest(2)
      ELSE <<65533>> \o rest(1)
    ELSE IF b[1] >= 224 /\ b[1] <= 239 THEN
      IF ~SecondOk(b) THEN <<65533>> \o rest(1)
      ELSE IF ~IsCont(b, 3) THEN <<65533>> \o rest(2)
      ELSE <<((b[1] - 224) * 4096) + ((b[2] - 128) * 64) + (b[3] - 128)>> \o rest(3)
    ELSE IF b[1] >= 240 /\ b[1] <= 244 THEN
      IF ~SecondOk(b) THEN <<65533>> \o rest(1)
      ELSE IF ~IsCont(b, 3) THEN <<65533>> \o rest(2)
      ELSE IF ~IsCont(b, 4) THEN <<65533>> \o rest(3)
      ELSE LET cp == ((b[1] - 240) * 262144) + ((b[2] - 128) * 4096)
                     + ((b[3] - 128) * 64) + ((b[4] - 128) - 65536) IN
           <<55296 + (cp \div 1024), 56320 + (cp % 1024)>> \o rest(4)
    ELSE <<65533>> \o rest(1)

(***************************************************************************)
(* The registry: bfe.json decorated by decorateBFE.  A type is             *)
(* [type, code, sigil, formats], a format [format, code, suffix]; <<>> is  *)
(* a sigil or suffix the definition does not declare, and a code is the    *)
(* byte of the one-byte Buffer decorateBFE makes of it.                    *)
(***************************************************************************)
Format(name, code, suffix) == [format |-> name, code |-> code, suffix |-> suffix]
Type(name, code, sigil, formats) ==
  [type |-> name, code |-> code, sigil |-> sigil, formats |-> formats]

GenericType ==
  Type("generic", 6, <<>>,
       <<Format("UTF8 string", 0, <<>>), Format("boolean", 1, <<>>),
         Format("nil", 2, <<>>), Format("any bytes", 3, <<>>)>>)

\* "@" ".ed25519" / "%" ".sha256" ".bbmsg-v1" / ".sig.ed25519"
BfeTypes ==
  << Type("feed", 0, <<64>>,
          <<Format("classic", 0, <<46, 101, 100, 50, 53, 53, 49, 57>>)>>),
     Type("msg", 1, <<37>>,
          <<Format("classic", 0, <<46, 115, 104, 97, 50, 53, 54>>),
            Format("bendy butt", 4, <<46, 98, 98, 109, 115, 103, 45, 118, 49>>)>>),
     Type("signature", 4, <<>>,
          <<Format("msg-ed25519", 0, <<46, 115, 105, 103, 46, 101, 100, 50, 53, 53, 49, 57>>)>>),
     GenericType >>

\* the same table with one more type, whose sigil "ab" has two characters
\* and whose format has the suffix ".v1"
WideTypes ==
  BfeTypes \o << Type("wide", 7, <<97, 98>>, <<Format("v1", 0, <<46, 118, 49>>)>>) >>

Registries == {BfeTypes, WideTypes}

\* definitionsToDict: the type of a name, and the format of a name in it
NAMED_TYPES(name) == CHOOSE t \in {TYPES[i] : i \in DOMAIN TYPES} : t.type = name
NamedFormat(t, name) == CHOOSE f \in {t.formats[i] : i \in DOMAIN t.formats} : f.format = name

(***************************************************************************)
(* findClassicTypeFormat: the first type, in table order, that declares a  *)
(* sigil the string starts with; in it the first format, in table order,   *)
(* whose suffix ends the string once the sigil is stripped.  The result    *)
(* names both by their index, 0 for none.                                  *)
(***************************************************************************)
findClassicTypeFormat(input, types) ==
  LET ts == {i \in DOMAIN types : types[i].sigil # <<>> /\ IsPrefix(types[i].sigil, input)} IN
  IF ts = {} THEN [type |-> 0, format |-> 0]
  ELSE LET t == First(ts)
           rest == SubSeq(input, Len(types[t].sigil) + 1, Len(input))
           fs == {j \in DOMAIN types[t].formats :
                    /\ types[t].formats[j].suffix # <<>>
                    /\ IsSuffix(types[t].formats[j].suffix, rest)}
       IN [type |-> t, format |-> IF fs = {} THEN 0 ELSE First(fs)]

(***************************************************************************)
(* The module-level tags.                                                  *)
(***************************************************************************)
toTF(type, format) ==
  <<NAMED_TYPES(type).code, NamedFormat(NAMED_TYPES(type), format).code>>

STRING_TF == toTF("generic", "UTF8 string")
BOOL_TF == toTF("generic", "boolean")
BOOL_TRUE == <<1>>
BOOL_FALSE == <<0>>

(***************************************************************************)
(* encoder                                                                 *)
(***************************************************************************)
encoder_boolean(input) ==
  LET d == IF input.n = 1 THEN BOOL_TRUE ELSE BOOL_FALSE IN Buf(BOOL_TF \o d)

\* the two tag bytes written format first
encoder_sigilSuffix_swapped(input, type, format) ==
  LET stripped == IF type.sigil # <<>> THEN JsSliceFrom(input, 1) ELSE input
      data == IF format.suffix # <<>>
              THEN JsSlice(stripped, 0, 0 - Len(format.suffix))
              ELSE stripped
  IN Buf(<<format.code, type.code>> \o Base64ToBytes(data))

encoder_sigilSuffix(input, type, format) ==
  LET stripped == IF type.sigil # <<>> THEN JsSliceFrom(input, 1) ELSE input
      data == IF format.suffix # <<>>
              THEN JsSlice(stripped, 0, 0 - Len(format.suffix))
              ELSE stripped
  IN Buf(<<type.code, format.code>> \o Base64ToBytes(data))

encoder_string(input) == Buf(STRING_TF \o Utf8Bytes(input))

\* returns the NIL_TF object itself
encoder_nil == [Mk("buffer") EXCEPT !.a = "NIL_TF"]

(***************************************************************************)
(* encode                                                                  *)
(***************************************************************************)
\* Buffers not among the cases left alone
isNotEncoded_noBuffer(input) == input.k \in {"undefined", "int"}

\* "cases we don't encode"
isNotEncoded(input) == input.k \in {"undefined", "buffer", "int"}

\* an undefined element left in the output array
encodeElement_hole(y) == y

\* the element of the output array for the encoded element y
encodeElement(y) == IF y.k = "undefined" THEN encoder_nil ELSE y

\* whether the output object gets the key of the encoded value y
keepsKey(y) == y.k # "undefined"

\* the exception a callback throws leaves map / the for-in loop at once
FirstThrown(ys) == ys[First({i \in DOMAIN ys : IsError(ys[i])})]
Throws(ys) == \E i \in DOMAIN ys : IsError(ys[i])

\* a failing element caught and replaced by the nil tag
encodedArray_swallow(ys) ==
  Arr([i \in DOMAIN ys |-> IF IsError(ys[i]) THEN encoder_nil ELSE encodeElement(ys[i])])

encodedArray(ys) ==
  IF Throws(ys) THEN FirstThrown(ys)
  ELSE Arr([i \in DOMAIN ys |-> encodeElement(ys[i])])

encodedObject(keys, ys) ==
  IF Throws(ys) THEN FirstThrown(ys)
  ELSE LET kept == SelectSeq([i \in DOMAIN ys |-> i], LAMBDA i : keepsKey(ys[i]))
       IN Obj([j \in DOMAIN kept |-> keys[kept[j]]], [j \in DOMAIN kept |-> ys[kept[j]]])

\* the enumerable keys and their values: of a Buffer, its indexes and bytes
KeysOf(input) ==
  IF input.k = "buffer" THEN [i \in DOMAIN BufBytes(input) |-> ToString(i - 1)] ELSE input.ks
ValuesOf(input) ==
  IF input.k = "buffer" THEN [i \in DOMAIN BufBytes(input) |-> Integer(BufBytes(input)[i])]
  ELSE input.vs

RECURSIVE encode(_)
encode(input) ==
  IF isNotEncoded(input) THEN input
  ELSE IF input.k = "string" THEN
    LET tf == findClassicTypeFormat(input.s, TYPES) IN
    IF tf.type # 0 THEN
      IF tf.format # 0
      THEN encoder_sigilSuffix(input.s, TYPES[tf.type], TYPES[tf.type].formats[tf.format])
      ELSE Throw("Unknown " \o TYPES[tf.type].type \o " format")
    ELSE encoder_string(input.s)
  ELSE IF input.k = "boolean" THEN encoder_boolean(input)
  ELSE IF input.k = "null" THEN encoder_nil
  ELSE IF input.k = "array" THEN
    encodedArray([i \in DOMAIN input.vs |-> encode(input.vs[i])])
  ELSE IF input.k \in {"object", "buffer"} THEN  \* typeof input === 'object'
    encodedObject(KeysOf(input), [i \in DOMAIN ValuesOf(input) |-> encode(ValuesOf(input)[i])])
  ELSE ThrowWith("cannot encode input ", TextOf(input))

(***************************************************************************)
(* decoder                                                                 *)
(***************************************************************************)
decoder_sigilSuffix(input, type, format) ==
  Str(type.sigil \o BytesToBase64(JsSliceFrom(input, 2)) \o format.suffix)

\* a Buffer has no property `size`: input.size is undefined
Buffer_size(input) == "undefined"
\* x > n for a number n : false when x is undefined (NaN > n)
JsGreater(x, n) == x # "undefined" /\ x > n

decoder_bool(input) ==
  IF JsGreater(Buffer_size(input), 3) THEN Throw("boolean BFE must be 3 bytes, was ")
  ELSE IF JsSlice(input, 2, 3) = BOOL_FALSE THEN Bool(FALSE)
  ELSE IF JsSlice(input, 2, 3) = BOOL_TRUE THEN Bool(TRUE)
  ELSE Throw("invalid boolean BFE")

\* the payload read one character per byte (latin1) instead of as UTF-8
decoder_string_latin1(input) == Str(JsSliceFrom(input, 2))

decoder_string(input) == Str(Utf8Text(JsSliceFrom(input, 2)))

(***************************************************************************)
(* decode                                                                  *)
(***************************************************************************)
\* only the empty Buffer refused
isMissingTF_empty(input) == Len(input) < 1
isMissingTF(input) == Len(input) < 2

missingTFError(input) ==
  ThrowWith("Buffer is missing first two type&format fields: ", Utf8Text(input))
\* an unknown format reported with the message of an unknown type
unknownFormatError_generic(type) == Throw("Unknown type/ format")
unknownFormatError(type) == Throw("Unknown " \o type.type \o " format")
noDecoderError(type, format) ==
  Throw("no decoder defined yet for type: " \o type.type \o ", format: " \o format.format)
unknownTypeError == Throw("Unknown type/ format")

\* decode of the bytes of a Buffer
decodeBuffer(input) ==
  IF isMissingTF(input) THEN missingTFError(input)
  ELSE IF input = NIL_TF THEN Null
  ELSE IF JsSlice(input, 0, 2) = BOOL_TF THEN decoder_bool(input)
  ELSE IF JsSlice(input, 0, 2) = STRING_TF THEN decoder_string(input)
  ELSE
    LET ts == {i \in DOMAIN TYPES : <<TYPES[i].code>> = JsSlice(input, 0, 1)} IN
    IF ts # {} THEN
      LET type == TYPES[First(ts)]
          fs == {j \in DOMAIN type.formats : <<type.formats[j].code>> = JsSlice(input, 1, 2)}
      IN IF fs # {} THEN
           LET format == type.formats[First(fs)] IN
           IF type.sigil # <<>> \/ format.suffix # <<>>
           THEN decoder_sigilSuffix(input, type, format)
           ELSE noDecoderError(type, format)
         ELSE unknownFormatError(type)
    ELSE unknownTypeError

decodedArray(ys) == IF Throws(ys) THEN FirstThrown(ys) ELSE Arr(ys)
decodedObject(keys, ys) == IF Throws(ys) THEN FirstThrown(ys) ELSE Obj(keys, ys)

RECURSIVE decode(_)
decode(input) ==
  IF input.k = "null" THEN Null
  ELSE IF input.k = "int" THEN input
  ELSE IF input.k = "buffer" THEN decodeBuffer(BufBytes(input))
  ELSE IF input.k = "array" THEN
    decodedArray([i \in DOMAIN input.vs |-> decode(input.vs[i])])
  ELSE IF input.k = "object" THEN
    decodedObject(input.ks, [i \in DOMAIN input.vs |-> decode(input.vs[i])])
  ELSE ThrowWith("don't know how to decode: ", TextOf(input))

(***************************************************************************)
(* What the callers pass.                                                  *)
(***************************************************************************)
SeqsUpTo(S, n) == UNION {[1..m -> S] : m \in 0..n}
ArraysOver(S) == {Arr(q) : q \in SeqsUpTo(S, MaxLen)}
Keys == <<"a", "b", "c", "d">>
ObjectsOver(S) == {Obj(SubSeq(Keys, 1, Len(q)), q) : q \in SeqsUpTo(S, Min(MaxLen, Len(Keys)))}
Nested(S) == S \cup {Arr(<<x>>) : x \in S} \cup {Obj(<<"k">>, <<x>>) : x \in S}
               \cup {Arr(<<Arr(<<x>>)>>) : x \in S}

\* base64 text: "", "AA==", "AAE=", "QUJD", "+/8=", "QUJDAA==" are what
\* toString('base64') writes; "AA", "AB==", "QU JD", "A", "-_8=" are not
Payloads ==
  { <<>>, <<65, 65, 61, 61>>, <<65, 65, 69, 61>>, <<81, 85, 74, 68>>,
    <<43, 47, 56, 61>>, <<81, 85, 74, 68, 65, 65, 61, 61>>,
    <<65, 65>>, <<65, 66, 61, 61>>, <<81, 85, 32, 74, 68>>, <<65>>,
    <<45, 95, 56, 61>> }

\* sigil + payload + suffix for every sigil and suffix of the wider table
SigilSuffixStrings ==
  { WideTypes[i].sigil \o p \o WideTypes[i].formats[j].suffix :
      <<i, j, p>> \in {<<i, j, p>> \in (DOMAIN WideTypes) \X (1..2) \X Payloads :
                         /\ WideTypes[i].sigil # <<>>
                         /\ j \in DOMAIN WideTypes[i].formats} }

\* the two message ids of test/01-msg.js
TestClassic ==
  <<37, 72, 90, 86, 110, 69, 122, 109, 48, 78, 103, 111, 83, 86, 102, 71, 48, 72, 120,
    52, 103, 77, 70, 98, 77, 77, 72, 104, 70, 118, 104, 74, 115, 71, 50, 122, 75, 47,
    112, 105, 106, 89, 73, 73, 61, 46, 115, 104, 97, 50, 53, 54>>
TestBendy ==
  <<37, 72, 90, 86, 110, 69, 122, 109, 48, 78, 103, 111, 83, 86, 102, 71, 48, 72, 120,
    52, 103, 77, 70, 98, 77, 77, 72, 104, 70, 118, 104, 74, 115, 71, 50, 122, 75, 47,
    112, 105, 106, 89, 73, 73, 61, 46, 98, 98, 109, 115, 103, 45, 118, 49>>
TestValues == Arr(<<Str(TestClassic), Str(TestBendy)>>)

\* "@QUJD", "%", "abQUJD": a sigil and no suffix of its type
SigilOnlyStrings == { <<64, 81, 85, 74, 68>>, <<37>>, <<97, 98, 81, 85, 74, 68>> }

\* "", "hi", "e-acute", an unpaired surrogate, a surrogate pair, "=",
\* "QUJD.sha256", "QUJD.sig.ed25519"
PlainStrings ==
  { <<>>, <<104, 105>>, <<233>>, <<55357>>, <<55357, 56832>>, <<61>>,
    <<81, 85, 74, 68, 46, 115, 104, 97, 50, 53, 54>>,
    <<81, 85, 74, 68, 46, 115, 105, 103, 46, 101, 100, 50, 53, 53, 49, 57>> }

ByteVals == {0, 1, 2, 3, 6}
\* tagged "hi", "e-acute", a cut-off UTF-8 sequence, and longer payloads
OtherBuffers ==
  { <<6, 0, 104, 105>>, <<6, 0, 195, 169>>, <<6, 0, 195>>, <<1, 0, 65, 66, 67>>,
    <<0, 0, 255, 254, 253, 252>>, <<7, 0, 1, 2, 3, 4, 5>>, <<6, 1, 0, 0, 0, 0>>,
    <<1, 4>>, <<1, 4, 0, 1>>, <<4, 0, 1>>, <<4, 1>>, <<7, 0>>, <<7, 1>>, <<9, 9>> }
Buffers == {Buf(b) : b \in SeqsUpTo(ByteVals, MaxBufLen) \cup OtherBuffers}

EncodeLeaves ==
  {Integer(0), Integer(7), Integer(0 - 1), Bool(TRUE), Bool(FALSE), Null, Absent, Float(3)}
    \cup {Str(u) : u \in SigilSuffixStrings \cup SigilOnlyStrings \cup PlainStrings}
    \cup {Str(TestClassic), Str(TestBendy), TestValues}
    \cup {Buf(<<>>), Buf(<<6>>), Buf(<<6, 2>>), Buf(<<6, 1, 1>>), Buf(<<1, 0, 65>>), Buf(<<9, 9, 9>>)}

\* "%QUJD.sha256", "hi", "@QUJD"
EncodeItems ==
  { Integer(7), Bool(TRUE), Null, Absent, Float(3),
    Str(<<37, 81, 85, 74, 68, 46, 115, 104, 97, 50, 53, 54>>), Str(<<104, 105>>),
    Str(<<64, 81, 85, 74, 68>>), Buf(<<6, 2>>) }

\* "%AA==.sha256"
EncodeDeepItems ==
  Nested({Absent, Float(3), Str(<<37, 65, 65, 61, 61, 46, 115, 104, 97, 50, 53, 54>>)})

EncodeInputs ==
  EncodeLeaves \cup ArraysOver(EncodeItems) \cup ObjectsOver(EncodeItems)
    \cup ArraysOver(EncodeDeepItems)

DecodeItems ==
  { Buf(<<6, 2>>), Buf(<<6, 1, 1>>), Buf(<<6>>), Buf(<<>>), Buf(<<6, 0, 104, 105>>),
    Buf(<<1, 0, 0, 1, 2>>), Buf(<<2, 0>>), Integer(7), Null }

DecodeDeepItems == Nested({Buf(<<6>>), Buf(<<6, 3>>), Integer(7)})

DecodeInputs ==
  Buffers \cup {Null, Integer(7), Absent, Bool(TRUE), Float(3), Str(<<104, 105>>)}
    \cup ArraysOver(DecodeItems) \cup ObjectsOver(DecodeItems)
    \cup ArraysOver(DecodeDeepItems)

\* the bytes a caller writes into a Buffer it was given
WriteVals == {0, 1}

(***************************************************************************)
(* The module after load, and the calls.                                   *)
(***************************************************************************)
Init ==
  /\ TYPES \in Registries
  /\ NIL_TF = toTF("generic", "nil")
  /\ op = "init"
  /\ arg = None
  /\ ret = None
  /\ src = None

\* a caller calls encode(v)
CallEncode ==
  \E v \in EncodeInputs :
    /\ op = "init"
    /\ op' = "encode"
    /\ arg' = v
    /\ ret' = encode(v)
    /\ src' = None
    /\ UNCHANGED <<TYPES, NIL_TF>>

\* a caller calls decode(e)
CallDecode ==
  \E e \in DecodeInputs :
    /\ op = "init"
    /\ op' = "decode"
    /\ arg' = e
    /\ ret' = decode(e)
    /\ src' = None
    /\ UNCHANGED <<TYPES, NIL_TF>>

\* decode(encode(v)): the caller decodes what encode returned
DecodeResult ==
  /\ op = "encode"
  /\ ~IsError(ret)
  /\ op' = "decode"
  /\ arg' = ret
  /\ ret' = decode(ret)
  /\ src' = arg
  /\ UNCHANGED <<TYPES, NIL_TF>>

\* encode(encode(v)): the caller encodes what encode returned
EncodeResult ==
  /\ op = "encode"
  /\ src = None
  /\ ~IsError(ret)
  /\ op' = "encode"
  /\ arg' = ret
  /\ ret' = encode(ret)
  /\ src' = arg
  /\ UNCHANGED <<TYPES, NIL_TF>>

\* buf[i] = b: what NIL_TF holds after the write.  A Buffer of the caller's
\* own changes nothing the module holds.
WriteNilTF(buf, i, b) ==
  IF buf.a = "NIL_TF" THEN [NIL_TF EXCEPT ![i] = b] ELSE NIL_TF

\* the caller writes a byte into a Buffer of the result encode gave it (the
\* result itself, or an element of a returned array) and is done with it
CallerWrite ==
  /\ op = "encode"
  /\ \/ /\ ret.k = "buffer"
        /\ \E i \in DOMAIN BufBytes(ret), b \in WriteVals :
             NIL_TF' = WriteNilTF(ret, i, b)
     \/ /\ ret.k = "array"
        /\ \E e \in DOMAIN ret.vs :
             /\ ret.vs[e].k = "buffer"
             /\ \E i \in DOMAIN BufBytes(ret.vs[e]), b \in WriteVals :
                  NIL_TF' = WriteNilTF(ret.vs[e], i, b)
  /\ op' = "init"
  /\ arg' = None
  /\ ret' = None
  /\ src' = None
  /\ UNCHANGED TYPES

Next == CallEncode \/ CallDecode \/ DecodeResult \/ EncodeResult

\* the callers read what they are given and write nothing into it
Spec == Init /\ [][Next]_vars

\* the callers also write into the Buffers they are given
SpecWrite == Init /\ [][Next \/ CallerWrite]_vars

(***************************************************************************)
(* What the claims speak of.                                               *)
(***************************************************************************)
IsContainer(v) == v.k \in {"array", "object"}

\* the classic match of a string value, if any
Match(v) == findClassicTypeFormat(v.s, TYPES)
IsMatched(v) == v.k = "string" /\ Match(v).type # 0 /\ Match(v).format # 0
MatchedType(v) == TYPES[Match(v).type]
MatchedFormat(v) == MatchedType(v).formats[Match(v).format]
\* the string without the whole sigil and the whole suffix
Enclosed(v) ==
  SubSeq(v.s, Len(MatchedType(v).sigil) + 1, Len(v.s) - Len(MatchedFormat(v).suffix))

\* the bytes after the two tag bytes
Payload(bytes) == SubSeq(bytes, 3, Len(bytes))
NilTag == toTF("generic", "nil")

\* the kinds of failure, told apart by the message of the Error
IsMalformedTag(r) ==
  IsError(r) /\ r.msg = "Buffer is missing first two type&format fields: "
IsUnknownTag(r) == IsError(r) /\ r.msg = "Unknown type/ format"
IsUnknownFormat(r) ==
  IsError(r) /\ \E i \in DOMAIN TYPES : r.msg = "Unknown " \o TYPES[i].type \o " format"
IsNoDecoder(r) ==
  IsError(r) /\ \E i \in DOMAIN TYPES : \E j \in DOMAIN TYPES[i].formats :
    r.msg = "no decoder defined yet for type: " \o TYPES[i].type
            \o ", format: " \o TYPES[i].formats[j].format
IsInvalidBoolean(r) ==
  IsError(r) /\ r.msg \in {"invalid boolean BFE", "boolean BFE must be 3 bytes, was "}
KindsOf(r) ==
  {kind \in {"MalformedTag", "UnknownTag", "UnknownFormat", "NoDecoder"} :
     \/ kind = "MalformedTag" /\ IsMalformedTag(r)
     \/ kind = "UnknownTag" /\ IsUnknownTag(r)
     \/ kind = "UnknownFormat" /\ IsUnknownFormat(r)
     \/ kind = "NoDecoder" /\ IsNoDecoder(r)}

\* the Errors the leaves of a value raise when encoded / decoded alone
RECURSIVE EncodeErrors(_)
EncodeErrors(v) ==
  IF IsContainer(v) THEN UNION {EncodeErrors(v.vs[i]) : i \in DOMAIN v.vs}
  ELSE IF IsError(encode(v)) THEN {encode(v)} ELSE {}

RECURSIVE DecodeErrors(_)
DecodeErrors(v) ==
  IF IsContainer(v) THEN UNION {DecodeErrors(v.vs[i]) : i \in DOMAIN v.vs}
  ELSE IF IsError(decode(v)) THEN {decode(v)} ELSE {}

\* the Buffers shorter than a tag somewhere in a value
RECURSIVE ShortBuffers(_)
ShortBuffers(v) ==
  IF IsContainer(v) THEN UNION {ShortBuffers(v.vs[i]) : i \in DOMAIN v.vs}
  ELSE IF v.k = "buffer" /\ Len(BufBytes(v)) < 2 THEN {v} ELSE {}

\* no array or object in v holds undefined
RECURSIVE NoAbsentInside(_)
NoAbsentInside(v) ==
  IsContainer(v) =>
    \A i \in DOMAIN v.vs : v.vs[i].k # "undefined" /\ NoAbsentInside(v.vs[i])

\* only what encode leaves alone: Buffers, integers, containers of these,
\* and undefined at the top alone
RECURSIVE LeftAlone(_, _)
LeftAlone(v, top) ==
  \/ v.k \in {"buffer", "int"}
  \/ top /\ v.k = "undefined"
  \/ IsContainer(v) /\ \A i \in DOMAIN v.vs : LeftAlone(v.vs[i], FALSE)

\* base64 text as toString('base64') writes it
StdChar(u) == Sextet(u) < 64 /\ u # 45 /\ u # 95
IsCanonicalBase64(p) ==
  LET n == Len(p) IN
  /\ n % 4 = 0
  /\ n > 0 =>
       /\ \A i \in 1..(n - 2) : StdChar(p[i])
       /\ \/ StdChar(p[n - 1]) /\ StdChar(p[n])
          \/ StdChar(p[n - 1]) /\ p[n] = 61 /\ Sextet(p[n - 1]) % 4 = 0
          \/ p[n - 1] = 61 /\ p[n] = 61 /\ Sextet(p[n - 2]) % 16 = 0

\* no unpaired surrogate
WellFormed(units) ==
  \A i \in DOMAIN units :
    /\ IsHigh(units[i]) => i < Len(units) /\ IsLow(units[i + 1])
    /\ IsLow(units[i]) => i > 1 /\ IsHigh(units[i - 1])

\* the values the round trip is claimed for
RECURSIVE InClaimedDomain(_)
InClaimedDomain(v) ==
  \/ v.k \in {"buffer", "int", "boolean", "null"}
  \/ v.k = "string" /\ (IsMatched(v) \/ Match(v).type = 0)
  \/ IsContainer(v) /\ \A i \in DOMAIN v.vs : InClaimedDomain(v.vs[i])

\* the values the round trip holds for
RECURSIVE InRoundTripDomain(_)
InRoundTripDomain(v) ==
  \/ v.k \in {"int", "boolean", "null"}
  \/ /\ IsMatched(v)
     /\ Len(MatchedType(v).sigil) = 1
     /\ IsCanonicalBase64(Enclosed(v))
  \/ v.k = "string" /\ Match(v).type = 0 /\ WellFormed(v.s)
  \/ IsContainer(v) /\ \A i \in DOMAIN v.vs : InRoundTripDomain(v.vs[i])

(***************************************************************************)
(* The claims.  In a state with op = "encode", ret = encode(arg); with     *)
(* op = "decode", ret = decode(arg); and when src is not None, arg is what *)
(* encode(src) returned.                                                   *)
(***************************************************************************)

\* C1 (as claimed): for every value built from bytes, integers, booleans,
\* null, strings with a registered sigil and suffix, unrecognized strings and
\* nested arrays / objects of these, encode does not fail and
\* decode(encode(v)) = v.
C1_RoundTripAsClaimed ==
  /\ op = "encode" /\ InClaimedDomain(arg) => ~IsError(ret)
  /\ op = "decode" /\ src # None /\ InClaimedDomain(src) => ret = src

\* C1 (amended): for every value built from integers, booleans, null,
\* strings with a registered one-character sigil and a suffix whose enclosed
\* text is base64 as toString('base64') writes it, strings that start with no
\* registered sigil and hold no unpaired surrogate, and nested arrays /
\* objects of these, encode does not fail and decode(encode(v)) = v.
C1_RoundTrip ==
  /\ op = "encode" /\ InRoundTripDomain(arg) => ~IsError(ret)
  /\ op = "decode" /\ src # None /\ InRoundTripDomain(src) => ret = src

\* C1 witness: the array of test/01-msg.js has been encoded and decoded back.
C1_Witness == op = "decode" /\ src = TestValues /\ ret = TestValues

\* C2: for a string v matched to type T (sigil S) and format F (suffix X),
\* encode(v) is a Buffer whose bytes 0 and 1 are T.code and F.code, and
\* decode(encode(v)) is S + base64(payload) + X, the payload being encode(v)
\* without its first two bytes.
C2_TagAndReconstruction ==
  /\ op = "encode" /\ IsMatched(arg) =>
       /\ ret.k = "buffer"
       /\ Len(BufBytes(ret)) >= 2
       /\ BufBytes(ret)[1] = MatchedType(arg).code
       /\ BufBytes(ret)[2] = MatchedFormat(arg).code
  /\ op = "decode" /\ src # None /\ IsMatched(src) =>
       ret = Str(MatchedType(src).sigil \o BytesToBase64(Payload(BufBytes(arg)))
                 \o MatchedFormat(src).suffix)

\* C2 witness: the bendy-butt id of the test was encoded to a Buffer that
\* starts [1, 4] and decoded back to the id.
C2_Witness ==
  /\ op = "decode"
  /\ src = Str(TestBendy)
  /\ SubSeq(BufBytes(arg), 1, 2) = <<1, 4>>
  /\ ret = src

\* C3: decode of a Buffer that starts with the boolean tag gives false for
\* the payload [0], true for the payload [1], and fails with InvalidBoolean
\* for every other payload (empty, another byte, more than one byte).
C3_BooleanPayload ==
  op = "decode" /\ arg.k = "buffer" /\ Len(BufBytes(arg)) >= 2
    /\ SubSeq(BufBytes(arg), 1, 2) = BOOL_TF =>
      IF Payload(BufBytes(arg)) = <<0>> THEN ret = Bool(FALSE)
      ELSE IF Payload(BufBytes(arg)) = <<1>> THEN ret = Bool(TRUE)
      ELSE IsInvalidBoolean(ret)

\* C4: encoding an object drops exactly the keys whose encoded value is
\* undefined, encoding an array keeps the length and puts the nil tag where
\* the encoded element is undefined, and no array or object of an encode
\* result holds undefined.
C4_AbsentHandling ==
  op = "encode" /\ ~IsError(ret) =>
    /\ arg.k = "array" =>
         /\ ret.k = "array"
         /\ Len(ret.vs) = Len(arg.vs)
         /\ \A i \in DOMAIN arg.vs :
              encode(arg.vs[i]).k = "undefined" =>
                ret.vs[i].k = "buffer" /\ BufBytes(ret.vs[i]) = NilTag
    /\ arg.k = "object" =>
         /\ ret.k = "object"
         /\ ret.ks = SelectSeq(arg.ks, LAMBDA key :
                       \E i \in DOMAIN arg.ks :
                         arg.ks[i] = key /\ encode(arg.vs[i]).k # "undefined")
    /\ NoAbsentInside(ret)

\* C4 witness: [undefined, {k: undefined}] was encoded to [nil tag, {}].
C4_Witness ==
  /\ op = "encode"
  /\ arg = Arr(<<Absent, Obj(<<"k">>, <<Absent>>)>>)
  /\ ret = Arr(<<encoder_nil, Obj(<<>>, <<>>)>>)

\* C5: when some element, at any position and depth, fails to encode
\* (decode), the whole call fails with the Error of such an element and
\* returns no value.
C5_FailFast ==
  /\ op = "encode" /\ EncodeErrors(arg) # {} => ret \in EncodeErrors(arg)
  /\ op = "decode" /\ DecodeErrors(arg) # {} => ret \in DecodeErrors(arg)

\* C5 witness: encode of ["%AA==.sha256", [[1.5]]] failed on the number at
\* depth 3, after the first element had been encoded.
C5_Witness ==
  /\ op = "encode"
  /\ arg = Arr(<<Str(<<37, 65, 65, 61, 61, 46, 115, 104, 97, 50, 53, 54>>),
                 Arr(<<Arr(<<Float(3)>>)>>)>>)
  /\ ret = ThrowWith("cannot encode input ", <<3>>)

\* C6: for a Buffer of 2 bytes or more that is not the nil tag and starts
\* with neither the boolean nor the string tag, decode fails with UnknownTag
\* when byte 0 is no type code, with UnknownFormat when byte 0 is a type code
\* and byte 1 no format code of that type, with NoDecoder when both are
\* registered and neither a sigil nor a suffix is declared; and no Error is
\* of two of the kinds MalformedTag, UnknownTag, UnknownFormat, NoDecoder.
C6_LookupErrors ==
  /\ IsError(ret) => Cardinality(KindsOf(ret)) <= 1
  /\ op = "decode" /\ arg.k = "buffer" /\ Len(BufBytes(arg)) >= 2
       /\ BufBytes(arg) # NilTag
       /\ SubSeq(BufBytes(arg), 1, 2) \notin {BOOL_TF, STRING_TF} =>
       LET b == BufBytes(arg)
           ts == {i \in DOMAIN TYPES : TYPES[i].code = b[1]}
           fs == UNION {{<<i, j>> : j \in {j \in DOMAIN TYPES[i].formats :
                                              TYPES[i].formats[j].code = b[2]}} : i \in ts}
       IN /\ ts = {} => KindsOf(ret) = {"UnknownTag"}
          /\ ts # {} /\ fs = {} => KindsOf(ret) = {"UnknownFormat"}
          /\ (fs # {} /\ \A p \in fs : /\ TYPES[p[1]].sigil = <<>>
                                        /\ TYPES[p[1]].formats[p[2]].suffix = <<>>)
               => KindsOf(ret) = {"NoDecoder"}

\* C6 witness: decode of [6, 3, 1] (generic, any bytes) failed with NoDecoder.
C6_Witness ==
  /\ op = "decode"
  /\ arg = Buf(<<6, 3, 1>>)
  /\ KindsOf(ret) = {"NoDecoder"}

\* C7: decode of a Buffer shorter than 2 bytes fails with MalformedTag; when
\* such a Buffer is nested in arrays or objects, decoding it alone fails with
\* MalformedTag and the whole call fails and returns no value.
C7_MalformedTag ==
  op = "decode" =>
    /\ arg.k = "buffer" /\ Len(BufBytes(arg)) < 2 => IsMalformedTag(ret)
    /\ ShortBuffers(arg) # {} =>
         /\ IsError(ret)
         /\ \A b \in ShortBuffers(arg) : IsMalformedTag(decode(b))
         /\ DecodeErrors(arg) = {decode(b) : b \in ShortBuffers(arg)} => IsMalformedTag(ret)

\* C7 witness: decode of [7, [[<one byte>]]] failed with MalformedTag.
C7_Witness ==
  /\ op = "decode"
  /\ arg = Arr(<<Integer(7), Arr(<<Arr(<<Buf(<<6>>)>>)>>)>>)
  /\ IsMalformedTag(ret)

\* C8: when encode matches a string to a type with sigil S and a format with
\* suffix X, the payload after the two tag bytes is the base64 decoding of the
\* string without its first |S| and its last |X| characters, whatever the
\* length of the sigil.
C8_PayloadBetweenSigilAndSuffix ==
  op = "encode" /\ IsMatched(arg) =>
    Payload(BufBytes(ret)) = Base64ToBytes(Enclosed(arg))

\* C9: whatever callers wrote into the Buffers returned to them, encode(null)
\* returns the bytes [generic, nil], an undefined array element is replaced
\* by those bytes, and decode gives null for exactly the 2-byte nil tag.
C9_NilTagIntact ==
  /\ op = "encode" /\ arg = Null => BufBytes(ret) = NilTag
  /\ op = "encode" /\ arg.k = "array" /\ ~IsError(ret) =>
       \A i \in DOMAIN arg.vs : arg.vs[i] = Absent => BufBytes(ret.vs[i]) = NilTag
  /\ op = "decode" /\ arg.k = "buffer" => (ret = Null <=> BufBytes(arg) = NilTag)

\* C10: encode of an encode result succeeds and returns it unchanged, and an
\* encode result holds only Buffers, integers and arrays / objects of these
\* (or is undefined itself).
C10_Idempotent ==
  /\ op = "encode" /\ ~IsError(ret) => LeftAlone(ret, TRUE)
  /\ op = "encode" /\ src # None => ~IsError(ret) /\ ret = arg

\* C10 witness: the result of encode([undefined, "%QUJD.sha256"]) was encoded
\* again and came back unchanged.
C10_Witness ==
  /\ op = "encode"
  /\ src = Arr(<<Absent, Str(<<37, 81, 85, 74, 68, 46, 115, 104, 97, 50, 53, 54>>)>>)
  /\ arg = Arr(<<encoder_nil, Buf(<<1, 0, 65, 66, 67>>)>>)
  /\ ret = arg

====
